---- MODULE Spec2Model ----
(***************************************************************************)
(* A model of the DisasterMesh core: the routing engine (src/src/routing.rs)*)
(* and the message manager (src/src/message_manager.rs), with the wall     *)
(* clock (std::time::SystemTime) and the sled store as their environment.  *)
(*                                                                         *)
(* Time is counted in whole seconds.  SystemTime is not monotonic, so the  *)
(* clock may step backwards as well as advance; a call is short against    *)
(* the clock's unit and reads the clock once.  link_quality is an f32      *)
(* that the data model restricts to [0,1]; it is modelled by the ordered   *)
(* levels 0..MaxQuality (NaN is outside that range and is not modelled).   *)
(***************************************************************************)
EXTENDS Integers, Sequences, FiniteSets, TLC

\* ------------------------------------------------------------------ bounds
MaxTime == 2            \* the clock reads 0..MaxTime
MaxHop == 1             \* hop_count (u8) ranges over 0..MaxHop
MaxQuality == 1         \* link_quality levels 0..MaxQuality
MaxOffers == 3          \* longest recorded replay of update_route calls
max_age == 1            \* RoutingEngine::max_age, fixed at construction

Times == 0..MaxTime
HopCounts == 0..MaxHop
Qualities == 0..MaxQuality
MaxTtl == 1             \* ttl of a received envelope ranges over 0..MaxTtl
DEFAULT_TTL == 3600     \* Duration::from_secs(3600), the ttl Message::new sets

UserIds == {"U1", "U2"}
PeerIds == {"P1", "P2", "P3"}
MessageIds == {"M1", "M2"}
Recipients == {<<>>, <<"U2">>}          \* Option<UserId>
Contents == {"Text", "File"}            \* MessageContent, by variant
Receivers == {"R1", "R2"}
Tasks == {"T1", "T2"}                   \* tasks sharing one RoutingEngine
ReplayDest == "U1"

\* Option<T>
None == <<>>
Some(x) == <<x>>

VARIABLES
    routes,     \* RoutingEngine::routes : HashMap<UserId, RouteInfo>
    db,         \* MessageManager::db : the default tree of the sled store
    seen,       \* MessageManager::seen : the sled tree "seen"
    now,        \* the reading of SystemTime::now()
    rpc,        \* each receiver's position in its receive path
    rid,        \* the message id each receiver is handling
    lastOp,     \* history: the last call made and what it returned
    offered,    \* history: the update_route calls replayed for ReplayDest
    hist,       \* history: the ids allocated, created, marked seen and marked
                \*   again; per id the receivers that read it as new and that
                \*   delivered it; the highest clock reading so far
    task,       \* per task: its position in the call it is making, the call,
                \*   and the locals of the call
    rwlock      \* the tokio RwLock around routes: the tasks holding a read
                \*   guard, those holding a write guard, and the wait queue

vars == <<routes, db, seen, now, rpc, rid, lastOp, offered, hist, task, rwlock>>
ccVars == <<task, rwlock>>
msgVars == <<db, seen, rpc, rid, hist, ccVars>>
rtVars == <<routes, offered, ccVars>>

\* ------------------------------------------------------------ routing.rs
RouteInfo(destination, nh, hop_count, last_updated, link_quality) ==
    [destination |-> destination, next_hop |-> nh, hop_count |-> hop_count,
     last_updated |-> last_updated, link_quality |-> link_quality]

is_expired_future(route, clock) == clock - route.last_updated > max_age

\* SystemTime::elapsed() is Err when last_updated lies after the clock.
is_expired(route, clock) ==
    IF clock >= route.last_updated
    THEN clock - route.last_updated > max_age
    ELSE TRUE

should_replace_mut(table, destination, hop_count, link_quality) ==
    IF destination \in DOMAIN table
    THEN \/ hop_count < table[destination].hop_count
         \/ /\ hop_count = table[destination].hop_count
            /\ link_quality >= table[destination].link_quality
    ELSE TRUE

should_replace_hops(table, destination, hop_count, link_quality) ==
    IF destination \in DOMAIN table
    THEN \/ hop_count <= table[destination].hop_count
         \/ /\ hop_count = table[destination].hop_count
            /\ link_quality > table[destination].link_quality
    ELSE TRUE

should_replace_absent(table, destination, hop_count, link_quality) ==
    IF destination \in DOMAIN table
    THEN \/ hop_count < table[destination].hop_count
         \/ /\ hop_count = table[destination].hop_count
            /\ link_quality > table[destination].link_quality
    ELSE FALSE

should_replace(table, destination, hop_count, link_quality) ==
    IF destination \in DOMAIN table
    THEN \/ hop_count < table[destination].hop_count
         \/ /\ hop_count = table[destination].hop_count
            /\ link_quality > table[destination].link_quality
    ELSE TRUE

\* HashMap::insert
Insert(table, key, value) ==
    [k \in DOMAIN table \cup {key} |-> IF k = key THEN value ELSE table[k]]

Retain_mut(table, clock) ==
    [k \in {d \in DOMAIN table : is_expired(table[d], clock)} |-> table[k]]

\* HashMap::retain with the closure of cleanup
Retain(table, clock) ==
    [k \in {d \in DOMAIN table : ~is_expired(table[d], clock)} |-> table[k]]

NextHopOf_fresh(table, destination) ==
    IF destination \in DOMAIN table /\ ~is_expired(table[destination], now)
    THEN Some(table[destination].next_hop)
    ELSE None

\* routes.get(destination).map(|r| r.next_hop)
NextHopOf(table, destination) ==
    IF destination \in DOMAIN table THEN Some(table[destination].next_hop) ELSE None

\* routes.values().cloned().collect(), in arbitrary order
DumpOf(table) == {table[d] : d \in DOMAIN table}

Candidate(nh, hop_count, link_quality) ==
    [next_hop |-> nh, hop_count |-> hop_count, link_quality |-> link_quality]

Record(destination, cand) ==
    IF offered.tracked /\ destination = ReplayDest
    THEN [offered EXCEPT !.seq = Append(@, cand)]
    ELSE offered

\* history: the entry of destination that a cleanup removed in the step before
SweptBefore(destination) ==
    IF lastOp.op = "cleanup"
    THEN {r \in lastOp.removed : r.destination = destination}
    ELSE {}

update_route(destination, nh, hop_count, link_quality) ==
    /\ offered.tracked /\ destination = ReplayDest => Len(offered.seq) < MaxOffers
    /\ routes' = IF should_replace(routes, destination, hop_count, link_quality)
                 THEN Insert(routes, destination,
                             RouteInfo(destination, nh, hop_count, now, link_quality))
                 ELSE routes
    /\ lastOp' = [op |-> "update_route", destination |-> destination,
                  next_hop |-> nh, hop_count |-> hop_count,
                  link_quality |-> link_quality,
                  swept |-> SweptBefore(destination)]
    /\ offered' = Record(destination, Candidate(nh, hop_count, link_quality))
    /\ UNCHANGED <<now, msgVars>>

next_hop(destination) ==
    /\ lastOp' = [op |-> "next_hop", destination |-> destination,
                  result |-> NextHopOf(routes, destination)]
    /\ UNCHANGED <<routes, now, offered, msgVars>>

cleanup ==
    /\ routes' = Retain(routes, now)
    /\ lastOp' = [op |-> "cleanup", removed |-> DumpOf(routes) \ DumpOf(Retain(routes, now))]
    /\ offered' = [tracked |-> FALSE, seq |-> <<>>]
    /\ UNCHANGED <<now, msgVars>>

dump ==
    /\ lastOp' = [op |-> "dump", result |-> DumpOf(routes)]
    /\ UNCHANGED <<routes, now, offered, msgVars>>

\* ------------------------------------------------- message_manager.rs
\* Result<T>
Ok(x) == [ok |-> TRUE, value |-> x]
Err(e) == [ok |-> FALSE, error |-> e]

\* MessageId::to_bytes: the key an id is stored under
to_bytes(id) == <<"uuid", id>>

Message_new_mut(sender, recipient, content, id, clock) ==
    [id |-> id, sender |-> sender, recipient |-> recipient, content |-> content,
     timestamp |-> clock, ttl |-> DEFAULT_TTL, hop_count |-> 1, signature |-> <<>>]

\* Message::new, with the id MessageId::new() drew and the clock reading
Message_new(sender, recipient, content, id, clock) ==
    [id |-> id, sender |-> sender, recipient |-> recipient, content |-> content,
     timestamp |-> clock, ttl |-> DEFAULT_TTL, hop_count |-> 0, signature |-> <<>>]

\* bincode::serialize(&message): the fields in declaration order
Serialize(m) ==
    <<m.id, m.sender, m.recipient, m.content, m.timestamp, m.ttl, m.hop_count,
      m.signature>>

\* the value mark_message_seen stores: &[]
Empty == <<>>

\* sled's Db::insert on the default tree; a rejected write changes nothing
db_insert(store, key, value, write_ok) ==
    IF write_ok THEN Insert(store, key, value) ELSE store

\* sled's Db::contains_key; Err when the read fails
contains_key(store, key, read_ok) ==
    IF read_ok THEN Ok(key \in DOMAIN store) ELSE Err("storage")

\* Result::unwrap_or
unwrap_or(result, default) == IF result.ok THEN result.value ELSE default

is_new_result_mut(store, id, read_ok) ==
    ~unwrap_or(contains_key(store, to_bytes(id), read_ok), TRUE)

is_new_result(store, id, read_ok) ==
    ~unwrap_or(contains_key(store, to_bytes(id), read_ok), FALSE)

mark_store_mut(store, id, write_ok) == store

mark_store_toggle(store, id, write_ok) ==
    IF write_ok /\ to_bytes(id) \in DOMAIN store
    THEN [k \in DOMAIN store \ {to_bytes(id)} |-> store[k]]
    ELSE db_insert(store, to_bytes(id), Empty, write_ok)

\* the store after mark_message_seen's insert
mark_store(store, id, write_ok) == db_insert(store, to_bytes(id), Empty, write_ok)

create_store_mut(store, message, write_ok) == store

\* the store after create_message's insert
create_store(store, message, write_ok) ==
    db_insert(store, to_bytes(message.id), Serialize(message), write_ok)

\* now.duration_since(timestamp).unwrap_or(Duration::from_secs(0))
age_of(timestamp, clock) == IF clock >= timestamp THEN clock - timestamp ELSE 0

validate_result_mut(timestamp, ttl, clock) ==
    IF age_of(timestamp, clock) >= ttl THEN Err("Message expired") ELSE Ok("unit")

validate_result(timestamp, ttl, clock) ==
    IF age_of(timestamp, clock) > ttl THEN Err("Message expired") ELSE Ok("unit")

create_result_mut(message, write_ok) == Ok(message)

\* what create_message returns: `?` hands the store's error to the caller
create_result(message, write_ok) ==
    IF write_ok THEN Ok(message) ELSE Err("storage")

\* Uuid::new_v4 draws 122 random bits: the id drawn is one not in use.
create_message(sender, recipient, content, id, write_ok) ==
    /\ id \notin hist.allocated
    /\ to_bytes(id) \notin DOMAIN db
    /\ LET message == Message_new(sender, recipient, content, id, now)
       IN /\ db' = create_store(db, message, write_ok)
          /\ lastOp' = [op |-> "create_message", sender |-> sender,
                        recipient |-> recipient, content |-> content, id |-> id,
                        write_ok |-> write_ok,
                        result |-> create_result(message, write_ok)]
    /\ hist' = [hist EXCEPT !.allocated = @ \cup {id},
                            !.created = IF write_ok THEN @ \cup {id} ELSE @]
    /\ UNCHANGED <<seen, now, rpc, rid, rtVars>>

is_new_message(id, read_ok) ==
    /\ lastOp' = [op |-> "is_new_message", id |-> id, read_ok |-> read_ok,
                  result |-> is_new_result(db, id, read_ok)]
    /\ UNCHANGED <<db, seen, now, rpc, rid, hist, rtVars>>

mark_message_seen(id, write_ok) ==
    /\ db' = mark_store(db, id, write_ok)
    /\ lastOp' = [op |-> "mark_message_seen", id |-> id, write_ok |-> write_ok,
                  result |-> IF write_ok THEN Ok("unit") ELSE Err("storage")]
    /\ hist' = [hist EXCEPT !.marked = IF write_ok THEN @ \cup {id} ELSE @,
                            !.remarked = IF write_ok /\ id \in hist.marked
                                         THEN @ \cup {id} ELSE @]
    /\ UNCHANGED <<seen, now, rpc, rid, rtVars>>

validate_message(timestamp, ttl) ==
    /\ lastOp' = [op |-> "validate_message", timestamp |-> timestamp, ttl |-> ttl,
                  result |-> validate_result(timestamp, ttl, now)]
    /\ UNCHANGED <<db, seen, now, rpc, rid, hist, rtVars>>

\* ---------------------------------------------------- routing_control.rs
MaxUnreachable == 3     \* longest unreachable list of a route error
UserIdLen == 32         \* UserId(pub [u8; 32])
RequestIds == {0, 42, 65536, 2147483647}        \* request_id: u32

Rreq(origin, destination, request_id, hop_count) ==
    [variant |-> "Rreq", origin |-> origin, destination |-> destination,
     request_id |-> request_id, hop_count |-> hop_count]

Rrep(origin, destination, hop_count) ==
    [variant |-> "Rrep", origin |-> origin, destination |-> destination,
     hop_count |-> hop_count]

Rerr(unreachable) == [variant |-> "Rerr", unreachable |-> unreachable]

UserIdLists == UNION {[1..n -> UserIds] : n \in 0..MaxUnreachable}

RoutingControl ==
    {Rreq(o, d, i, h) : o \in UserIds, d \in UserIds, i \in RequestIds, h \in HopCounts}
    \cup {Rrep(o, d, h) : o \in UserIds, d \in UserIds, h \in HopCounts}
    \cup {Rerr(l) : l \in UserIdLists}

\* bincode writes integers little-endian at their fixed width
RECURSIVE le_bytes(_, _)
le_bytes(x, n) == IF n = 0 THEN <<>> ELSE <<x % 256>> \o le_bytes(x \div 256, n - 1)

RECURSIVE from_le(_)
from_le(bytes) == IF bytes = <<>> THEN 0 ELSE Head(bytes) + 256 * from_le(Tail(bytes))

\* the 32 bytes of a UserId: U1 is [1; 32], U2 is [2; 32]
UserByte(u) == IF u = "U1" THEN 1 ELSE 2
user_bytes(u) == [i \in 1..UserIdLen |-> UserByte(u)]
user_of(bytes) == CHOOSE u \in UserIds : user_bytes(u) = bytes

RECURSIVE users_bytes(_)
users_bytes(l) == IF l = <<>> THEN <<>> ELSE user_bytes(Head(l)) \o users_bytes(Tail(l))

encode_mut(packet) ==
    IF packet.variant = "Rreq"
    THEN le_bytes(0, 4) \o user_bytes(packet.origin) \o user_bytes(packet.destination)
         \o le_bytes(packet.request_id, 4) \o le_bytes(packet.hop_count, 1)
    ELSE IF packet.variant = "Rrep"
    THEN le_bytes(1, 4) \o user_bytes(packet.origin) \o user_bytes(packet.destination)
         \o le_bytes(packet.hop_count, 1)
    ELSE le_bytes(2, 4) \o le_bytes(Len(packet.unreachable), 4)
         \o users_bytes(packet.unreachable)

\* bincode::serialize(&packet): the variant's index as u32, then its fields in
\* declaration order; a Vec as its length in a u64, then its elements
encode(packet) ==
    IF packet.variant = "Rreq"
    THEN le_bytes(0, 4) \o user_bytes(packet.origin) \o user_bytes(packet.destination)
         \o le_bytes(packet.request_id, 4) \o le_bytes(packet.hop_count, 1)
    ELSE IF packet.variant = "Rrep"
    THEN le_bytes(1, 4) \o user_bytes(packet.origin) \o user_bytes(packet.destination)
         \o le_bytes(packet.hop_count, 1)
    ELSE le_bytes(2, 4) \o le_bytes(Len(packet.unreachable), 8)
         \o users_bytes(packet.unreachable)

\* the bytes from position `from`, `n` of them
Take(bytes, from, n) == SubSeq(bytes, from, from + n - 1)

\* bincode::deserialize::<RoutingControl>(&encoded)
decode(bytes) ==
    IF Len(bytes) < 4 THEN Err("decode")
    ELSE LET tag == from_le(Take(bytes, 1, 4))
             o == 5
             d == o + UserIdLen
             f == d + UserIdLen
         IN IF tag = 0 /\ Len(bytes) >= f + 4
            THEN Ok(Rreq(user_of(Take(bytes, o, UserIdLen)),
                         user_of(Take(bytes, d, UserIdLen)),
                         from_le(Take(bytes, f, 4)),
                         bytes[f + 4]))
            ELSE IF tag = 1 /\ Len(bytes) >= f
            THEN Ok(Rrep(user_of(Take(bytes, o, UserIdLen)),
                         user_of(Take(bytes, d, UserIdLen)),
                         bytes[f]))
            ELSE IF tag = 2 /\ Len(bytes) >= 12
                    /\ Len(bytes) >= 12 + UserIdLen * from_le(Take(bytes, 5, 8))
            THEN Ok(Rerr([i \in 1..from_le(Take(bytes, 5, 8)) |->
                             user_of(Take(bytes, 13 + UserIdLen * (i - 1), UserIdLen))]))
            ELSE Err("decode")

serialize(packet) ==
    /\ lastOp' = [op |-> "serialize", packet |-> packet, encoded |-> encode(packet)]
    /\ UNCHANGED <<now, msgVars, rtVars>>

deserialize ==
    /\ lastOp.op = "serialize"
    /\ lastOp' = [op |-> "deserialize", packet |-> lastOp.packet,
                  encoded |-> lastOp.encoded, result |-> decode(lastOp.encoded)]
    /\ UNCHANGED <<now, msgVars, rtVars>>

\* ------------------------------------- routing.rs, called by several tasks
\* A call on the shared engine is a sequence of steps: it joins the wait
\* queue of the lock, is granted its guard, runs its body under the guard
\* (update_route reads and decides, then inserts; dump clones the entries
\* one by one), and drops the guard when it returns.  A task may instead
\* write to the store, which involves no table lock.
NoCall == [op |-> "none"]
Loc0 == [replace |-> FALSE, scanned |-> {}, got |-> {}, result |-> None]
Idle == [pc |-> "idle", call |-> NoCall, loc |-> Loc0]

\* each task relays the routes of its own neighbour
TaskPeer(t) == IF t = "T1" THEN "P1" ELSE "P2"

UpdateCalls(t, dests) ==
    {[op |-> "update_route", destination |-> d, next_hop |-> TaskPeer(t),
      hop_count |-> h, link_quality |-> 0] : d \in dests, h \in HopCounts}

TableCalls(t, dests) ==
    UpdateCalls(t, dests)
      \cup {[op |-> "next_hop", destination |-> d] : d \in dests}
      \cup {[op |-> "cleanup"], [op |-> "dump"]}

StoreCalls == {[op |-> "mark_message_seen", id |-> "M1"]}

lock_mode_mut(call) == "read"

\* routes.write().await in update_route and cleanup, routes.read().await in
\* next_hop and dump
lock_mode(call) ==
    IF call.op \in {"update_route", "cleanup"} THEN "write" ELSE "read"

can_acquire_mut(l, t, mode) ==
    /\ \E i \in 1..Len(l.queue) : l.queue[i] = t
    /\ l.writers = {}
    /\ mode = "write" => l.readers = {}

\* tokio's RwLock grants guards in the order they were asked for: the task
\* at the head of the queue gets its guard once no conflicting guard is out
can_acquire(l, t, mode) ==
    /\ Len(l.queue) > 0 /\ Head(l.queue) = t
    /\ l.writers = {}
    /\ mode = "write" => l.readers = {}

Without(q, t) == SelectSeq(q, LAMBDA x : x # t)

Holders(l) == l.readers \cup l.writers

Call(t, c) ==
    /\ task[t].pc = "idle"
    /\ IF c.op = "mark_message_seen"
       THEN /\ task' = [task EXCEPT ![t] = [pc |-> "io", call |-> c, loc |-> Loc0]]
            /\ rwlock' = rwlock
       ELSE /\ task' = [task EXCEPT ![t] = [pc |-> "acquire", call |-> c, loc |-> Loc0]]
            /\ rwlock' = [rwlock EXCEPT !.queue = Append(@, t)]
    /\ UNCHANGED <<routes, db, seen, now, rpc, rid, lastOp, offered, hist>>

Acquire(t) ==
    /\ task[t].pc = "acquire"
    /\ can_acquire(rwlock, t, lock_mode(task[t].call))
    /\ rwlock' = IF lock_mode(task[t].call) = "write"
                 THEN [rwlock EXCEPT !.queue = Without(@, t), !.writers = @ \cup {t}]
                 ELSE [rwlock EXCEPT !.queue = Without(@, t), !.readers = @ \cup {t}]
    /\ task' = [task EXCEPT ![t].pc = "locked"]
    /\ UNCHANGED <<routes, db, seen, now, rpc, rid, lastOp, offered, hist>>

\* update_route, lines 52-58: read the entry and decide
UpdateRead(t) ==
    /\ task[t].pc = "locked" /\ task[t].call.op = "update_route"
    /\ LET c == task[t].call
       IN task' = [task EXCEPT
                     ![t].pc = "decided",
                     ![t].loc.replace = should_replace(routes, c.destination,
                                                       c.hop_count, c.link_quality)]
    /\ UNCHANGED <<routes, db, seen, now, rpc, rid, lastOp, offered, hist, rwlock>>

\* update_route, lines 60-71: insert if decided so
UpdateInsert(t) ==
    /\ task[t].pc = "decided"
    /\ LET c == task[t].call
       IN routes' = IF task[t].loc.replace
                    THEN Insert(routes, c.destination,
                                RouteInfo(c.destination, c.next_hop, c.hop_count,
                                          now, c.link_quality))
                    ELSE routes
    /\ task' = [task EXCEPT ![t].pc = "release"]
    /\ UNCHANGED <<db, seen, now, rpc, rid, lastOp, offered, hist, rwlock>>

NextHopRead(t) ==
    /\ task[t].pc = "locked" /\ task[t].call.op = "next_hop"
    /\ task' = [task EXCEPT
                  ![t].pc = "release",
                  ![t].loc.result = NextHopOf(routes, task[t].call.destination)]
    /\ UNCHANGED <<routes, db, seen, now, rpc, rid, lastOp, offered, hist, rwlock>>

CleanupRetain(t) ==
    /\ task[t].pc = "locked" /\ task[t].call.op = "cleanup"
    /\ routes' = Retain(routes, now)
    /\ task' = [task EXCEPT ![t].pc = "release"]
    /\ UNCHANGED <<db, seen, now, rpc, rid, lastOp, offered, hist, rwlock>>

\* dump: values().cloned() visits the keys one by one, in arbitrary order
DumpScan(t, d) ==
    /\ task[t].pc = "locked" /\ task[t].call.op = "dump"
    /\ d \notin task[t].loc.scanned
    /\ LET scanned == task[t].loc.scanned \cup {d}
           got == task[t].loc.got
                    \cup (IF d \in DOMAIN routes THEN {routes[d]} ELSE {})
       IN task' = [task EXCEPT
                     ![t].pc = IF scanned = UserIds THEN "release" ELSE "locked",
                     ![t].loc.scanned = scanned,
                     ![t].loc.got = got]
    /\ UNCHANGED <<routes, db, seen, now, rpc, rid, lastOp, offered, hist, rwlock>>

\* the guard is dropped as the call returns
Release(t) ==
    /\ task[t].pc = "release"
    /\ rwlock' = [rwlock EXCEPT !.readers = @ \ {t}, !.writers = @ \ {t}]
    /\ task' = [task EXCEPT ![t] = Idle]
    /\ UNCHANGED <<routes, db, seen, now, rpc, rid, lastOp, offered, hist>>

\* MessageManager::mark_message_seen on the task: the store write
StoreWrite(t, write_ok) ==
    /\ task[t].pc = "io"
    /\ db' = mark_store(db, task[t].call.id, write_ok)
    /\ hist' = [hist EXCEPT !.marked = IF write_ok THEN @ \cup {task[t].call.id}
                                                  ELSE @]
    /\ task' = [task EXCEPT ![t] = Idle]
    /\ UNCHANGED <<routes, seen, now, rpc, rid, lastOp, offered, rwlock>>

\* the steps of task t once it has made its call
Step(t) ==
    \/ Acquire(t)
    \/ UpdateRead(t)
    \/ UpdateInsert(t)
    \/ NextHopRead(t)
    \/ CleanupRetain(t)
    \/ \E d \in UserIds : DumpScan(t, d)
    \/ Release(t)
    \/ \E ok \in BOOLEAN : StoreWrite(t, ok)

\* ------------------------------------------------------------- the clock
Tick ==
    /\ now < MaxTime
    /\ now' = now + 1
    /\ lastOp' = [op |-> "clock"]
    /\ hist' = [hist EXCEPT !.maxNow = IF now' > @ THEN now' ELSE @]
    /\ UNCHANGED <<db, seen, rpc, rid, rtVars>>

StepBack ==
    /\ now > 0
    /\ \E t \in 0..(now - 1) : now' = t
    /\ lastOp' = [op |-> "clock"]
    /\ UNCHANGED <<msgVars, rtVars>>

\* ------------------------------------------- receivers (the receive path)
\* A receive loop takes up a message id, asks is_new_message, and when the
\* answer is "new" marks the id seen and delivers the message.
RecvStart(r, id) ==
    /\ rpc[r] = "idle"
    /\ rpc' = [rpc EXCEPT ![r] = "check"]
    /\ rid' = [rid EXCEPT ![r] = id]
    /\ lastOp' = [op |-> "receive"]
    /\ UNCHANGED <<db, seen, now, hist, rtVars>>

RecvIsNew(r, read_ok) ==
    /\ rpc[r] = "check"
    /\ LET new == is_new_result(db, rid[r], read_ok)
       IN /\ rpc' = [rpc EXCEPT ![r] = IF new THEN "mark" ELSE "idle"]
          /\ hist' = [hist EXCEPT !.admitted[rid[r]] =
                                      IF new /\ read_ok THEN @ \cup {r} ELSE @]
          /\ lastOp' = [op |-> "is_new_message", id |-> rid[r], read_ok |-> read_ok,
                        result |-> new]
    /\ UNCHANGED <<db, seen, now, rid, rtVars>>

RecvMark(r, write_ok) ==
    /\ rpc[r] = "mark"
    /\ db' = mark_store(db, rid[r], write_ok)
    /\ rpc' = [rpc EXCEPT ![r] = IF write_ok THEN "deliver" ELSE "idle"]
    /\ hist' = [hist EXCEPT !.marked = IF write_ok THEN @ \cup {rid[r]} ELSE @]
    /\ lastOp' = [op |-> "mark_message_seen", id |-> rid[r],
                  write_ok |-> write_ok,
                  result |-> IF write_ok THEN Ok("unit") ELSE Err("storage")]
    /\ UNCHANGED <<seen, now, rid, rtVars>>

RecvDeliver(r) ==
    /\ rpc[r] = "deliver"
    /\ rpc' = [rpc EXCEPT ![r] = "idle"]
    /\ hist' = [hist EXCEPT !.delivered[rid[r]] = @ \cup {r}]
    /\ lastOp' = [op |-> "deliver", id |-> rid[r]]
    /\ UNCHANGED <<db, seen, now, rid, rtVars>>

\* -------------------------------------------------------- specifications
EmptyMap == [k \in {} |-> 0]

InitWith(tracked) ==
    /\ routes = EmptyMap
    /\ db = EmptyMap
    /\ seen = EmptyMap
    /\ now = 0
    /\ rpc = [r \in Receivers |-> "idle"]
    /\ rid = [r \in Receivers |-> "M1"]
    /\ lastOp = [op |-> "new"]
    /\ offered = [tracked |-> tracked, seq |-> <<>>]
    /\ hist = [allocated |-> {}, created |-> {}, marked |-> {}, remarked |-> {},
               admitted |-> [i \in MessageIds |-> {}],
               delivered |-> [i \in MessageIds |-> {}],
               maxNow |-> now]
    /\ task = [t \in Tasks |-> Idle]
    /\ rwlock = [readers |-> {}, writers |-> {}, queue |-> <<>>]

Init == InitWith(FALSE)

RoutingNext ==
    \/ \E d \in UserIds, p \in PeerIds, h \in HopCounts, q \in Qualities :
          update_route(d, p, h, q)
    \/ \E d \in UserIds : next_hop(d)
    \/ cleanup
    \/ dump
    \/ Tick
    \/ StepBack

RoutingSpec == Init /\ [][RoutingNext]_vars

\* Replay of update_route calls for one destination on a new table.
ReplayInit == InitWith(TRUE)

ReplayNext ==
    \/ \E p \in PeerIds, h \in HopCounts, q \in Qualities :
          update_route(ReplayDest, p, h, q)

ReplaySpec == ReplayInit /\ [][ReplayNext]_vars

MessageNext ==
    \/ \E s \in UserIds, r \in Recipients, c \in Contents, i \in MessageIds,
          w \in BOOLEAN : create_message(s, r, c, i, w)
    \/ \E i \in MessageIds, ok \in BOOLEAN : is_new_message(i, ok)
    \/ \E i \in MessageIds, ok \in BOOLEAN : mark_message_seen(i, ok)
    \/ \E t \in Times, l \in (0..MaxTtl) \cup {DEFAULT_TTL} : validate_message(t, l)
    \/ Tick
    \/ StepBack

MessageSpec == Init /\ [][MessageNext]_vars

ReceiverNext ==
    \/ \E r \in Receivers, i \in MessageIds : RecvStart(r, i)
    \/ \E r \in Receivers, ok \in BOOLEAN : RecvIsNew(r, ok)
    \/ \E r \in Receivers, ok \in BOOLEAN : RecvMark(r, ok)
    \/ \E r \in Receivers : RecvDeliver(r)

ReceiverSpec == Init /\ [][ReceiverNext]_vars

\* The two expiry rules side by side: cleanup's and validate_message's.
ExpiryNext ==
    \/ \E d \in UserIds, p \in PeerIds, h \in HopCounts, q \in Qualities :
          update_route(d, p, h, q)
    \/ cleanup
    \/ \E t \in Times, l \in (0..MaxTtl) \cup {DEFAULT_TTL} : validate_message(t, l)
    \/ Tick
    \/ StepBack

ExpirySpec == Init /\ [][ExpiryNext]_vars

CodecNext ==
    \/ \E packet \in RoutingControl : serialize(packet)
    \/ deserialize

CodecSpec == Init /\ [][CodecNext]_vars

\* Tasks calling the shared engine concurrently.
ConcurrentNext ==
    \/ \E t \in Tasks : \E c \in TableCalls(t, UserIds) : Call(t, c)
    \/ \E t \in Tasks : Acquire(t)
    \/ \E t \in Tasks : UpdateRead(t)
    \/ \E t \in Tasks : UpdateInsert(t)
    \/ \E t \in Tasks : NextHopRead(t)
    \/ \E t \in Tasks : CleanupRetain(t)
    \/ \E t \in Tasks, d \in UserIds : DumpScan(t, d)
    \/ \E t \in Tasks : Release(t)
    \/ Tick

ConcurrentSpec == Init /\ [][ConcurrentNext]_vars

\* Tasks calling the engine and the store, each task scheduled fairly: a
\* task that can take a step of its call is not passed over forever.
FairNext ==
    \/ \E t \in Tasks :
          \E c \in TableCalls(t, {ReplayDest}) \cup StoreCalls : Call(t, c)
    \/ \E t \in Tasks : Acquire(t)
    \/ \E t \in Tasks : UpdateRead(t)
    \/ \E t \in Tasks : UpdateInsert(t)
    \/ \E t \in Tasks : NextHopRead(t)
    \/ \E t \in Tasks : CleanupRetain(t)
    \/ \E t \in Tasks, d \in UserIds : DumpScan(t, d)
    \/ \E t \in Tasks : Release(t)
    \/ \E t \in Tasks, ok \in BOOLEAN : StoreWrite(t, ok)

FairSpec == Init /\ [][FairNext]_vars /\ \A t \in Tasks : WF_vars(Step(t))

Next ==
    RoutingNext \/ MessageNext \/ ReceiverNext \/ CodecNext \/ ConcurrentNext
      \/ FairNext

Spec == Init /\ [][Next]_vars

\* ------------------------------------------------------------- properties
IsOp(o, name) == o.op = name

\* a is strictly better than b: fewer hops, or equal hops and greater quality
LexBetter(a, b) ==
    \/ a.hop_count < b.hop_count
    \/ a.hop_count = b.hop_count /\ a.link_quality > b.link_quality

NewEntry(o, clock) ==
    RouteInfo(o.destination, o.next_hop, o.hop_count, clock, o.link_quality)

\* C1: update_route inserts when the destination has no entry, replaces the
\* entry exactly when the candidate has fewer hops, or equal hops and greater
\* link quality, and otherwise leaves the table as it was.
C1_ReplacementPolicy ==
    [][IsOp(lastOp', "update_route") =>
         LET d == lastOp'.destination
         IN IF d \notin DOMAIN routes
            THEN routes' = Insert(routes, d, NewEntry(lastOp', now))
            ELSE IF LexBetter(lastOp', routes[d])
                 THEN routes' = Insert(routes, d, NewEntry(lastOp', now))
                 ELSE routes' = routes]_vars

\* C1 witness: a candidate with equal hops and lower quality, offered through
\* P3, was discarded and the route through P2 stands.
C1_Witness ==
    /\ IsOp(lastOp, "update_route")
    /\ lastOp.next_hop = "P3"
    /\ lastOp.destination \in DOMAIN routes
    /\ routes[lastOp.destination].next_hop = "P2"
    /\ routes[lastOp.destination].hop_count = lastOp.hop_count
    /\ routes[lastOp.destination].link_quality > lastOp.link_quality

\* index of the best candidate of s, the first one among those that tie
FirstBest(s) ==
    CHOOSE i \in 1..Len(s) :
        /\ \A j \in 1..Len(s) : ~LexBetter(s[j], s[i])
        /\ \A j \in 1..(i - 1) : LexBetter(s[i], s[j])

\* C2: after any replay of update_route calls for one destination on a new
\* table, the entry is the offered candidate with the fewest hops and, among
\* those, the greatest link quality; of candidates that tie, the first applied.
C2_BestOffered ==
    offered.tracked /\ Len(offered.seq) > 0 =>
        /\ ReplayDest \in DOMAIN routes
        /\ LET c == offered.seq[FirstBest(offered.seq)]
           IN /\ routes[ReplayDest].next_hop = c.next_hop
              /\ routes[ReplayDest].hop_count = c.hop_count
              /\ routes[ReplayDest].link_quality = c.link_quality

\* C2 witness: three offers, the best pair offered twice through different
\* peers after a worse first offer; the earlier of the two is held.
C2_Witness ==
    /\ offered.tracked
    /\ Len(offered.seq) = 3
    /\ FirstBest(offered.seq) = 2
    /\ ~LexBetter(offered.seq[2], offered.seq[3])
    /\ ~LexBetter(offered.seq[3], offered.seq[2])
    /\ offered.seq[2].next_hop # offered.seq[3].next_hop
    /\ routes[ReplayDest].next_hop = offered.seq[2].next_hop

\* C3 as stated: after update_route(d, h1, hc, lq), next_hop(d) is Some(h1)
\* whatever the table held.
C3_Original ==
    IsOp(lastOp, "update_route") =>
        NextHopOf(routes, lastOp.destination) = Some(lastOp.next_hop)

\* C3: after update_route(d, h1, hc, lq), next_hop(d) is Some(h1) when the
\* table held no entry for d or the candidate is strictly better than the
\* entry held; otherwise it is the next hop of the entry held.
C3_NextHopAfterUpdate ==
    [][IsOp(lastOp', "update_route") =>
         LET d == lastOp'.destination
         IN NextHopOf(routes', d) =
               IF d \notin DOMAIN routes \/ LexBetter(lastOp', routes[d])
               THEN Some(lastOp'.next_hop)
               ELSE Some(routes[d].next_hop)]_vars

\* C3 witness: the candidate just offered is the entry, stamped with the
\* current clock reading.
C3_Witness ==
    /\ IsOp(lastOp, "update_route")
    /\ lastOp.destination \in DOMAIN routes
    /\ routes[lastOp.destination] = NewEntry(lastOp, now)
    /\ NextHopOf(routes, lastOp.destination) = Some(lastOp.next_hop)

\* C4: of the receivers handling one message id, at most one reads the id as
\* new (from a read that succeeded) and goes on to deliver.
C4_AtMostOnce ==
    \A i \in MessageIds : Cardinality(hist.admitted[i]) <= 1

\* C5: right after cleanup no entry is older than max_age, and every entry
\* that was older than max_age before cleanup is gone from the dump; the
\* passing of time alone removes nothing.
C5_CleanupRemovesAged ==
    [][/\ IsOp(lastOp', "cleanup") =>
            /\ \A r \in DumpOf(routes') : now' - r.last_updated <= max_age
            /\ \A r \in DumpOf(routes) :
                  now - r.last_updated > max_age => r \notin DumpOf(routes')
       /\ IsOp(lastOp', "clock") => DumpOf(routes') = DumpOf(routes)]_vars

\* C5 witness: cleanup has just removed an entry aged past max_age and kept
\* another.
C5_Witness ==
    /\ IsOp(lastOp, "cleanup")
    /\ \E r \in lastOp.removed : now - r.last_updated > max_age
    /\ DOMAIN routes # {}

\* C6 as stated: once an id is marked seen, every later is_new_message(id)
\* returns false.
C6_Original ==
    IsOp(lastOp, "is_new_message") /\ lastOp.id \in hist.marked => ~lastOp.result

\* C6: once an id is marked seen its key stays in the store, and every later
\* is_new_message(id) whose read of the store succeeds returns false.
C6_SeenStaysSeen ==
    /\ \A i \in hist.marked : to_bytes(i) \in DOMAIN db
    /\ IsOp(lastOp, "is_new_message") /\ lastOp.id \in hist.marked /\ lastOp.read_ok
          => ~lastOp.result

\* C6 witness: is_new_message answered false for a marked id after another
\* message was created.
C6_Witness ==
    /\ IsOp(lastOp, "is_new_message")
    /\ lastOp.id \in hist.marked
    /\ lastOp.read_ok
    /\ ~lastOp.result
    /\ hist.created \ {lastOp.id} # {}

\* C7 as stated: is_new_message is false for an id create_message returned,
\* and true for an id never created and never marked.
C7_Original ==
    IsOp(lastOp, "is_new_message") =>
        /\ lastOp.id \in hist.created => ~lastOp.result
        /\ lastOp.id \notin hist.created \cup hist.marked => lastOp.result

\* C7: is_new_message is false for an id create_message returned whenever its
\* read of the store succeeds, and true for an id never created and never
\* marked.
C7_CreatedIsKnown ==
    IsOp(lastOp, "is_new_message") =>
        /\ lastOp.id \in hist.created /\ lastOp.read_ok => ~lastOp.result
        /\ lastOp.id \notin hist.created \cup hist.marked => lastOp.result

\* C7 witness: is_new_message answered false for a created, never marked id.
C7_Witness ==
    /\ IsOp(lastOp, "is_new_message")
    /\ lastOp.id \in hist.created \ hist.marked
    /\ lastOp.read_ok
    /\ ~lastOp.result

\* age of an envelope: now minus timestamp, zero when now is before timestamp
EnvelopeAge(o, clock) == IF clock < o.timestamp THEN 0 ELSE clock - o.timestamp

Expired(o) == ~o.result.ok

\* C8 as stated: validate_message fails iff age > ttl, and fails in every
\* validation made after the clock has once read past timestamp + ttl.
C8_Original ==
    IsOp(lastOp, "validate_message") =>
        /\ Expired(lastOp) <=> EnvelopeAge(lastOp, now) > lastOp.ttl
        /\ hist.maxNow > lastOp.timestamp + lastOp.ttl => Expired(lastOp)

\* C8: validate_message fails iff age > ttl, so an envelope of age ttl passes,
\* an envelope stamped now or later passes, and every validation made while
\* the clock reads past timestamp + ttl fails.
C8_ExpiredIffAgeExceedsTtl ==
    IsOp(lastOp, "validate_message") =>
        /\ Expired(lastOp) <=> EnvelopeAge(lastOp, now) > lastOp.ttl
        /\ now = lastOp.timestamp + lastOp.ttl => ~Expired(lastOp)
        /\ now <= lastOp.timestamp => ~Expired(lastOp)
        /\ now > lastOp.timestamp + lastOp.ttl => Expired(lastOp)

\* C8 witness: an envelope whose age equals its ttl of one second passed.
C8_Witness ==
    /\ IsOp(lastOp, "validate_message")
    /\ lastOp.ttl = 1
    /\ now = lastOp.timestamp + lastOp.ttl
    /\ lastOp.result.ok

\* C9: when the read of the store fails, is_new_message reports true.
C9_FailOpen ==
    IsOp(lastOp, "is_new_message") /\ ~lastOp.read_ok => lastOp.result

\* C9 witness: a failed read reported a created and marked id as new.
C9_Witness ==
    /\ IsOp(lastOp, "is_new_message")
    /\ ~lastOp.read_ok
    /\ lastOp.id \in hist.created \cap hist.marked
    /\ lastOp.result

\* C10 as stated: a second mark_message_seen(id) returns no error, leaves the
\* store as it was, and is_new_message(id) is false afterwards.
C10_Original ==
    [][IsOp(lastOp', "mark_message_seen") /\ lastOp'.id \in hist.marked =>
         /\ lastOp'.result.ok
         /\ db' = db /\ seen' = seen
         /\ \A ok \in BOOLEAN : ~is_new_result(db', lastOp'.id, ok)]_vars

\* C10: a second mark_message_seen(id) returns no error unless the store
\* rejects the write; either way it leaves the store as it was, and an
\* is_new_message(id) afterwards whose read succeeds is false.
C10_MarkIdempotent ==
    [][IsOp(lastOp', "mark_message_seen") /\ lastOp'.id \in hist.marked =>
         /\ lastOp'.write_ok => lastOp'.result.ok
         /\ db' = db /\ seen' = seen
         /\ ~is_new_result(db', lastOp'.id, TRUE)]_vars

\* C10 witness: an id was marked seen a second time without error.
C10_Witness ==
    /\ IsOp(lastOp, "mark_message_seen")
    /\ lastOp.id \in hist.remarked
    /\ lastOp.result.ok
    /\ db[to_bytes(lastOp.id)] = Empty

\* C12: when the store rejects the write, create_message returns an error and
\* no envelope, and the store is as it was, with no record under the new id.
C12_CreateFailsClean ==
    [][IsOp(lastOp', "create_message") /\ ~lastOp'.write_ok =>
         /\ lastOp'.result = Err("storage")
         /\ db' = db /\ seen' = seen
         /\ to_bytes(lastOp'.id) \notin DOMAIN db']_vars

\* C12 witness: a create_message was rejected while the store held another
\* message.
C12_Witness ==
    /\ IsOp(lastOp, "create_message")
    /\ ~lastOp.write_ok
    /\ ~lastOp.result.ok
    /\ hist.created # {}
    /\ to_bytes(lastOp.id) \notin DOMAIN db

\* C13: a successful create_message returns an envelope carrying its
\* arguments, hop_count 0, ttl 3600 s, an empty signature and an id under
\* which the store held nothing, and stores the serialized envelope under that
\* id, leaving every other record as it was.
C13_CreateEnvelope ==
    [][IsOp(lastOp', "create_message") /\ lastOp'.result.ok =>
         LET m == lastOp'.result.value
         IN /\ m.sender = lastOp'.sender
            /\ m.recipient = lastOp'.recipient
            /\ m.content = lastOp'.content
            /\ m.hop_count = 0
            /\ m.ttl = 3600
            /\ m.signature = <<>>
            /\ m.timestamp = now
            /\ to_bytes(m.id) \notin DOMAIN db
            /\ DOMAIN db' = DOMAIN db \cup {to_bytes(m.id)}
            /\ db'[to_bytes(m.id)] = Serialize(m)
            /\ \A k \in DOMAIN db : db'[k] = db[k]]_vars

\* C13 witness: a second message was created, addressed to U2, while the
\* first is still stored.
C13_Witness ==
    /\ IsOp(lastOp, "create_message")
    /\ lastOp.result.ok
    /\ lastOp.recipient = Some("U2")
    /\ Cardinality(hist.created) = 2
    /\ db[to_bytes(lastOp.id)] = Serialize(lastOp.result.value)
    /\ \E k \in DOMAIN db : k # to_bytes(lastOp.id) /\ db[k] # Empty

\* C16: a created message's record stays the serialized envelope once its id
\* is marked seen, and the marked id is recorded in the seen tree.
C16_SeparateNamespaces ==
    \A i \in hist.created \cap hist.marked :
        /\ to_bytes(i) \in DOMAIN seen
        /\ to_bytes(i) \in DOMAIN db
        /\ db[to_bytes(i)] # Empty
        /\ db[to_bytes(i)][1] = i

C18_DiscardDoesNotRefresh ==
    [][/\ IsOp(lastOp', "update_route") =>
            LET d == lastOp'.destination
            IN d \in DOMAIN routes /\ ~LexBetter(lastOp', routes[d]) =>
                  routes' = routes
       /\ IsOp(lastOp', "cleanup") =>
            \A d \in DOMAIN routes :
               now - routes[d].last_updated > max_age => d \notin DOMAIN routes']_vars

\* C18 witness: the route held was announced again, unchanged, when it was
\* already older than max_age, and its last_updated is still the old one.
C18_Witness ==
    /\ IsOp(lastOp, "update_route")
    /\ lastOp.destination \in DOMAIN routes
    /\ routes[lastOp.destination].next_hop = lastOp.next_hop
    /\ routes[lastOp.destination].hop_count = lastOp.hop_count
    /\ routes[lastOp.destination].link_quality = lastOp.link_quality
    /\ now - routes[lastOp.destination].last_updated > max_age

\* C19: once cleanup has removed the entry of a destination, next_hop of it
\* is none, and an update_route for a destination without entry is accepted
\* whatever its hop_count and link_quality.
C19_AcceptedAfterRemoval ==
    [][/\ IsOp(lastOp', "cleanup") =>
            \A r \in lastOp'.removed : NextHopOf(routes', r.destination) = None
       /\ IsOp(lastOp', "update_route") =>
            LET d == lastOp'.destination
            IN d \notin DOMAIN routes =>
                  routes' = Insert(routes, d, NewEntry(lastOp', now))]_vars

\* C19 witness: right after cleanup removed a better entry, a worse candidate
\* for the same destination was accepted.
C19_Witness ==
    /\ IsOp(lastOp, "update_route")
    /\ \E r \in lastOp.swept : LexBetter(r, lastOp)
    /\ lastOp.destination \in DOMAIN routes
    /\ routes[lastOp.destination] = NewEntry(lastOp, now)

\* C20: cleanup keeps, unmodified, every entry stamped not after the clock
\* whose age is at most max_age, and removes every entry stamped after the
\* clock; validate_message accepts an envelope stamped after the clock.
C20_ExpiryRules ==
    [][/\ IsOp(lastOp', "cleanup") =>
            \A d \in DOMAIN routes :
               /\ routes[d].last_updated <= now /\ now - routes[d].last_updated <= max_age
                     => d \in DOMAIN routes' /\ routes'[d] = routes[d]
               /\ routes[d].last_updated > now => d \notin DOMAIN routes'
       /\ IsOp(lastOp', "validate_message") /\ lastOp'.timestamp > now =>
            lastOp'.result.ok]_vars

\* C20 witness: cleanup removed an entry stamped after the clock and kept one
\* whose age is exactly max_age.
C20_Witness ==
    /\ IsOp(lastOp, "cleanup")
    /\ \E r \in lastOp.removed : r.last_updated > now
    /\ \E d \in DOMAIN routes : now - routes[d].last_updated = max_age

\* C15: decoding the encoding of any control packet gives back the packet:
\* the same variant with the same field values.
C15_RoundTrip ==
    IsOp(lastOp, "deserialize") => lastOp.result = Ok(lastOp.packet)

\* C15 witness: a route error naming two destinations was encoded and decoded.
C15_Witness ==
    /\ IsOp(lastOp, "deserialize")
    /\ lastOp.packet.variant = "Rerr"
    /\ Len(lastOp.packet.unreachable) = 2
    /\ lastOp.result.ok
    /\ lastOp.result.value.unreachable = <<"U2", "U1">>

\* the guards that are out exclude each other: one writer, or readers only
Exclusive(l) ==
    /\ Cardinality(l.writers) <= 1
    /\ l.writers # {} => l.readers = {}

\* the table after applying call c to table as one atomic step at clock
Applied(table, c, clock) ==
    IF c.destination \notin DOMAIN table \/ LexBetter(c, table[c.destination])
    THEN Insert(table, c.destination, NewEntry(c, clock))
    ELSE table

\* C11: concurrent calls on the table are linearizable.  Guards that are out
\* exclude each other, and every call takes effect at a single step between
\* its invocation and its return as the same call made alone would: the
\* insert step of update_route leaves the table that the whole
\* read-compare-insert gives on the table of that step (no lost or torn
\* update), cleanup retains the unexpired entries of that step, next_hop
\* returns the next hop of a table no writer is in the middle of changing,
\* and dump returns exactly the entries the table has when its scan ends.
C11_Linearizable ==
    [][/\ Exclusive(rwlock)
       /\ \A t \in Tasks :
            LET c == task[t].call
                ends == task[t].pc # "release" /\ task'[t].pc = "release"
            IN /\ ends /\ c.op = "update_route" =>
                    routes' = Applied(routes, c, now)
               /\ ends /\ c.op = "cleanup" =>
                    routes' = Retain(routes, now)
               /\ ends /\ c.op = "next_hop" =>
                    /\ task'[t].loc.result = NextHopOf(routes, c.destination)
                    /\ \A u \in Tasks \ {t} : task[u].pc # "decided"
               /\ ends /\ c.op = "dump" =>
                    /\ task'[t].loc.got = DumpOf(routes)
                    /\ \A u \in Tasks \ {t} : task[u].pc # "decided"]_vars

\* C11 witness: T1 has replaced the route to a destination under its write
\* guard while T2 waits in the queue with a better route to the same
\* destination.
C11_Witness ==
    /\ task["T1"].pc = "release" /\ task["T1"].call.op = "update_route"
    /\ task["T1"].loc.replace
    /\ task["T2"].pc = "acquire" /\ task["T2"].call.op = "update_route"
    /\ task["T2"].call.destination = task["T1"].call.destination
    /\ task["T2"].call.hop_count < task["T1"].call.hop_count
    /\ rwlock.writers = {"T1"} /\ rwlock.queue = <<"T2">>
    /\ routes[task["T1"].call.destination].next_hop = "P1"

\* C14: with every task scheduled fairly, each call a task has made on the
\* table or the store returns, and a task that is writing to the store holds
\* no guard of the table lock.
C14_CallsReturn ==
    /\ \A t \in Tasks : (task[t].pc # "idle") ~> (task[t].pc = "idle")
    /\ [](\A t \in Tasks : task[t].pc = "io" => t \notin Holders(rwlock))

\* C14 witness: T1 waits for the write guard behind a dump of T2 that holds a
\* read guard and is half way through the table.
C14_Witness ==
    /\ task["T1"].pc = "acquire" /\ task["T1"].call.op = "cleanup"
    /\ task["T2"].pc = "locked" /\ task["T2"].call.op = "dump"
    /\ task["T2"].loc.scanned # {}
    /\ rwlock.readers = {"T2"} /\ rwlock.queue = <<"T1">>
====
